---- MODULE Spec2Model ----
(***************************************************************************)
(* The cryptocurrency service of exonum_test_task as a state machine.      *)
(*                                                                         *)
(* State: the wallets table of the service schema (public key -> Wallet),  *)
(* the transaction that was executed last together with its execution      *)
(* result, and a history variable remembering every TransferMultisign that *)
(* executed successfully.  One action per transaction kind; an action is   *)
(* the whole `execute` of that kind, the schema calls included.            *)
(*                                                                         *)
(* backend/src/schema.rs is not among the sources.  Its methods are        *)
(* modelled from the ledger primitives of the specification (credit,       *)
(* debit, reserve, release, create) on top of the Wallet methods of        *)
(* backend/src/wallet.rs, which are modelled from their code.              *)
(*                                                                         *)
(* The `seed` fields are not modelled: no `execute` reads them.            *)
(***************************************************************************)
EXTENDS Integers, Sequences, FiniteSets, TLC

(***************************************************************************)
(* Bounds of the model.                                                    *)
(***************************************************************************)
\* Amounts carried by Issue, Transfer and TransferMultisign are 0..MaxAmount.
MaxAmount == 1
\* No wallet's history_len grows beyond this.
MaxHistory == 2
\* u64 is scaled to WordBits bits: TLC's integers have 32.
WordBits == 16

\* The public keys, and those of them that ask for a wallet.
Keys == {"alice", "bob", "carol"}
Owners == {"alice", "bob"}
Names == {"main"}
Amounts == 0..MaxAmount
Modulus == 2^WordBits
\* Transaction hashes.  All but one can become the hash of a proposal, so
\* that there always is a hash no proposal has.
Hashes == {1, 2, 3}
\* The approver lists transactions carry: an owner, or the third party.
ApproverLists == {<<"bob">>, <<"carol">>}

VARIABLES
    wallets,    \* Schema::wallets: public key -> Wallet, for the keys that have one
    proposals,  \* history: hash -> the TransferMultisign that executed successfully
    last        \* the transaction executed last and its ExecutionResult

vars == <<wallets, proposals, last>>

(***************************************************************************)
(* Execution results.                                                      *)
(***************************************************************************)
ERROR_SENDER_SAME_AS_RECEIVER == 0
WalletAlreadyExists == 0
SenderNotFound == 1
ReceiverNotFound == 2
InsufficientCurrencyAmount == 3

\* Ok(())
Ok == [status |-> "Ok"]
\* ExecutionError::new(code): a code without description
ErrNew(code) == [status |-> "Err", code |-> code, description |-> ""]
\* From<Error> for ExecutionError: the discriminant and the `fail` display string
ErrFrom(code) ==
    [status |-> "Err", code |-> code,
     description |->
        CASE code = WalletAlreadyExists -> "Wallet already exists"
          [] code = SenderNotFound -> "Sender doesn't exist"
          [] code = ReceiverNotFound -> "Receiver doesn't exist"
          [] code = InsufficientCurrencyAmount -> "Insufficient currency amount"]
\* An arithmetic overflow panic of a build with overflow checks; the
\* blockchain discards the changes of a transaction that panics.
Panic == [status |-> "Panic"]

(***************************************************************************)
(* u64 arithmetic.  A build without overflow checks wraps.                 *)
(***************************************************************************)
U64Add(a, b) == (a + b) % Modulus
U64Sub(a, b) == (a - b + Modulus) % Modulus
AddOverflows(a, b) == a + b >= Modulus
SubOverflows(a, b) == a < b

(***************************************************************************)
(* wallet.rs                                                               *)
(***************************************************************************)
WalletNew(pub_key, name, balance, pending_balance, pending_txs_list, history_len, history_hash) ==
    [pub_key |-> pub_key,
     name |-> name,
     balance |-> balance,
     pending_balance |-> pending_balance,
     pending_txs |-> pending_txs_list,
     history_len |-> history_len,
     history_hash |-> history_hash]

\* set_balance that rebuilds the wallet without its name.
set_balance_Unnamed(self, balance, history_hash) ==
    WalletNew(self.pub_key, "", balance, self.pending_balance,
              self.pending_txs, self.history_len + 1, history_hash)

set_balance(self, balance, history_hash) ==
    WalletNew(self.pub_key, self.name, balance, self.pending_balance,
              self.pending_txs, self.history_len + 1, history_hash)

set_pending_balance(self, balance) ==
    WalletNew(self.pub_key, self.name, self.balance, balance,
              self.pending_txs, self.history_len, self.history_hash)

\* add_pending_tx that forgets the push.
add_pending_tx_NoPush(self, tx_hash) ==
    WalletNew(self.pub_key, self.name, self.balance, self.pending_balance,
              self.pending_txs, self.history_len, self.history_hash)

add_pending_tx(self, tx_hash) ==
    WalletNew(self.pub_key, self.name, self.balance, self.pending_balance,
              Append(self.pending_txs, tx_hash),
              self.history_len, self.history_hash)

\* Vec::iter().position: the first index holding x, 0 when there is none
Position(s, x) ==
    IF \E i \in 1..Len(s) : s[i] = x
    THEN CHOOSE i \in 1..Len(s) : s[i] = x /\ \A j \in 1..(i - 1) : s[j] # x
    ELSE 0

\* Vec::remove(index)
RemoveAt(s, index) ==
    [i \in 1..(Len(s) - 1) |-> IF i < index THEN s[i] ELSE s[i + 1]]

\* delete_pending_tx that clears the list when it holds the hash.
delete_pending_tx_Clear(self, tx_hash) ==
    LET index == Position(self.pending_txs, tx_hash)
        pending_txs == IF index # 0 THEN <<>> ELSE self.pending_txs
    IN  WalletNew(self.pub_key, self.name, self.balance, self.pending_balance,
                  pending_txs, self.history_len, self.history_hash)

delete_pending_tx(self, tx_hash) ==
    LET index == Position(self.pending_txs, tx_hash)
        pending_txs == IF index # 0 THEN RemoveAt(self.pending_txs, index)
                       ELSE self.pending_txs
    IN  WalletNew(self.pub_key, self.name, self.balance, self.pending_balance,
                  pending_txs, self.history_len, self.history_hash)

\* Vec::iter().find(|x| x == key).is_some()
Contains(s, x) == \E i \in 1..Len(s) : s[i] = x

(***************************************************************************)
(* Schema (schema.rs), over a table `ws` of wallets.                       *)
(***************************************************************************)
HasWallet(ws, key) == key \in DOMAIN ws

\* wallets_mut().put(&wallet.pub_key, wallet)
Put(ws, wallet) ==
    [k \in DOMAIN ws \cup {wallet.pub_key} |->
        IF k = wallet.pub_key THEN wallet ELSE ws[k]]

\* history_digest: the digest of the wallet's history once `hash` is its
\* entry number `len`.  The history index is kept by the storage layer; a
\* digest is identified here by the number of entries it covers.
HistoryDigest(len, hash) == len

\* create(id, name, cause_hash)
create_wallet(ws, key, name, hash) ==
    Put(ws, WalletNew(key, name, 0, 0, <<>>, 0, HistoryDigest(0, hash)))

\* credit(account, amount, cause_hash)
increase_wallet_balance(ws, wallet, amount, hash) ==
    Put(ws, set_balance(wallet, U64Add(wallet.balance, amount),
                        HistoryDigest(wallet.history_len + 1, hash)))

\* debit(account, amount, cause_hash)
decrease_wallet_balance(ws, wallet, amount, hash) ==
    Put(ws, set_balance(wallet, U64Sub(wallet.balance, amount),
                        HistoryDigest(wallet.history_len + 1, hash)))

\* reserve, first half: the proposal joins the pending set
add_tx_to_wallet(ws, wallet, hash) ==
    Put(ws, add_pending_tx(wallet, hash))

\* reserve, second half: pending_balance grows by amount
decrease_wallet_pending_balance(ws, wallet, amount) ==
    Put(ws, set_pending_balance(wallet, U64Add(wallet.pending_balance, amount)))

\* release(account, proposal_id)
remove_tx_from_wallet(ws, wallet, hash) ==
    Put(ws, delete_pending_tx(wallet, hash))

(***************************************************************************)
(* transactions.rs: the five `execute` methods.  Each yields the set of    *)
(* outcomes [result, wallets] the builds of the service can produce: one   *)
(* outcome, unless u64 arithmetic leaves its range; then a build with      *)
(* overflow checks panics and the changes are discarded, and a build       *)
(* without them goes on with the wrapped value.                            *)
(***************************************************************************)
Outcome(result, ws) == [result |-> result, wallets |-> ws]

Finish(ws, after, overflow) ==
    IF overflow THEN {Outcome(Panic, ws), Outcome(Ok, after)}
    ELSE {Outcome(Ok, after)}

\* Transfer::execute that debits the sender before it looks the receiver up.
TransferExecute_DebitFirst(ws, tx) ==
    LET from == tx.author
        hash == tx.hash
        to == tx.to
        amount == tx.amount
    IN  IF from = to THEN {Outcome(ErrNew(ERROR_SENDER_SAME_AS_RECEIVER), ws)}
        ELSE IF ~HasWallet(ws, from) THEN {Outcome(ErrFrom(SenderNotFound), ws)}
        ELSE LET sender == ws[from]
             IN  IF sender.balance < amount
                 THEN {Outcome(ErrFrom(InsufficientCurrencyAmount), ws)}
                 ELSE LET ws1 == decrease_wallet_balance(ws, sender, amount, hash)
                      IN  IF ~HasWallet(ws, to)
                          THEN {Outcome(ErrFrom(ReceiverNotFound), ws1)}
                          ELSE Finish(ws,
                                      increase_wallet_balance(ws1, ws[to],
                                                              amount, hash),
                                      AddOverflows(ws[to].balance, amount))

TransferExecute(ws, tx) ==
    LET from == tx.author
        hash == tx.hash
        to == tx.to
        amount == tx.amount
    IN  IF from = to THEN {Outcome(ErrNew(ERROR_SENDER_SAME_AS_RECEIVER), ws)}
        ELSE IF ~HasWallet(ws, from) THEN {Outcome(ErrFrom(SenderNotFound), ws)}
        ELSE IF ~HasWallet(ws, to) THEN {Outcome(ErrFrom(ReceiverNotFound), ws)}
        ELSE LET sender == ws[from]
                 receiver == ws[to]
             IN  IF sender.balance < amount
                 THEN {Outcome(ErrFrom(InsufficientCurrencyAmount), ws)}
                 ELSE LET ws1 == decrease_wallet_balance(ws, sender, amount, hash)
                          ws2 == increase_wallet_balance(ws1, receiver, amount, hash)
                      IN  Finish(ws, ws2, AddOverflows(receiver.balance, amount))

\* TransferMultisign::execute that takes the author for the sender, as
\* Transfer::execute does.
TransferMultisignExecute_AuthorAsSender(ws, tx) ==
    LET significant == tx.author
        hash == tx.hash
        from == tx.author
        to == tx.to
        amount == tx.amount
    IN  IF from = to THEN {Outcome(ErrNew(ERROR_SENDER_SAME_AS_RECEIVER), ws)}
        ELSE IF ~Contains(tx.approvers, significant)
        THEN {Outcome(ErrFrom(SenderNotFound), ws)}
        ELSE IF ~HasWallet(ws, from) THEN {Outcome(ErrFrom(SenderNotFound), ws)}
        ELSE IF ~HasWallet(ws, to) THEN {Outcome(ErrFrom(ReceiverNotFound), ws)}
        ELSE LET sender == ws[from]
             IN  IF sender.balance < amount
                 THEN {Outcome(ErrFrom(InsufficientCurrencyAmount), ws)}
                 ELSE LET ws1 == add_tx_to_wallet(ws, sender, hash)
                          sender1 == ws1[from]
                          ws2 == decrease_wallet_pending_balance(ws1, sender1, amount)
                      IN  Finish(ws, ws2,
                                 AddOverflows(sender1.pending_balance, amount))

TransferMultisignExecute(ws, tx) ==
    LET significant == tx.author
        hash == tx.hash
        from == tx.from
        to == tx.to
        amount == tx.amount
    IN  IF from = to THEN {Outcome(ErrNew(ERROR_SENDER_SAME_AS_RECEIVER), ws)}
        ELSE IF ~Contains(tx.approvers, significant)
        THEN {Outcome(ErrFrom(SenderNotFound), ws)}
        ELSE IF ~HasWallet(ws, from) THEN {Outcome(ErrFrom(SenderNotFound), ws)}
        ELSE IF ~HasWallet(ws, to) THEN {Outcome(ErrFrom(ReceiverNotFound), ws)}
        ELSE LET sender == ws[from]
             IN  IF sender.balance < amount
                 THEN {Outcome(ErrFrom(InsufficientCurrencyAmount), ws)}
                 ELSE LET ws1 == add_tx_to_wallet(ws, sender, hash)
                          sender1 == ws1[from]
                          ws2 == decrease_wallet_pending_balance(ws1, sender1, amount)
                      IN  Finish(ws, ws2,
                                 AddOverflows(sender1.pending_balance, amount))

\* AcceptMultisign::execute that looks the wallets up before it compares
\* `from` and `to`.
AcceptMultisignExecute_LookupFirst(ws, tx) ==
    LET significant == tx.author
        hash == tx.tx_hash
        from == tx.from
        to == tx.to
    IN  IF ~HasWallet(ws, from) THEN {Outcome(ErrFrom(SenderNotFound), ws)}
        ELSE IF ~HasWallet(ws, to) THEN {Outcome(ErrFrom(ReceiverNotFound), ws)}
        ELSE IF from = to THEN {Outcome(ErrNew(ERROR_SENDER_SAME_AS_RECEIVER), ws)}
        ELSE LET sender == ws[from]
                 receiver == ws[to]
             IN  IF Contains(sender.pending_txs, hash)
                 THEN IF Contains(tx.approvers, significant)
                      THEN LET ws1 == remove_tx_from_wallet(ws, sender, hash)
                               sender1 == ws1[from]
                               new_amount == U64Sub(sender1.balance,
                                                    sender1.pending_balance)
                               ws2 == decrease_wallet_balance(ws1, sender1,
                                                              new_amount, hash)
                               ws3 == increase_wallet_balance(ws2, receiver,
                                                              new_amount, hash)
                           IN  Finish(ws, ws3,
                                   \/ SubOverflows(sender1.balance,
                                                   sender1.pending_balance)
                                   \/ AddOverflows(receiver.balance, new_amount))
                      ELSE {Outcome(ErrFrom(SenderNotFound), ws)}
                 ELSE {Outcome(Ok, ws)}

AcceptMultisignExecute(ws, tx) ==
    LET significant == tx.author
        hash == tx.tx_hash
        from == tx.from
        to == tx.to
    IN  IF from = to THEN {Outcome(ErrNew(ERROR_SENDER_SAME_AS_RECEIVER), ws)}
        ELSE IF ~HasWallet(ws, from) THEN {Outcome(ErrFrom(SenderNotFound), ws)}
        ELSE IF ~HasWallet(ws, to) THEN {Outcome(ErrFrom(ReceiverNotFound), ws)}
        ELSE LET sender == ws[from]
                 receiver == ws[to]
                 pending_txs == sender.pending_txs
             IN  IF Contains(pending_txs, hash)
                 THEN IF Contains(tx.approvers, significant)
                      THEN LET ws1 == remove_tx_from_wallet(ws, sender, hash)
                               sender1 == ws1[from]
                               new_amount == U64Sub(sender1.balance,
                                                    sender1.pending_balance)
                               ws2 == decrease_wallet_balance(ws1, sender1,
                                                              new_amount, hash)
                               ws3 == increase_wallet_balance(ws2, receiver,
                                                              new_amount, hash)
                           IN  Finish(ws, ws3,
                                   \/ SubOverflows(sender1.balance,
                                                   sender1.pending_balance)
                                   \/ SubOverflows(sender1.balance, new_amount)
                                   \/ AddOverflows(receiver.balance, new_amount))
                      ELSE {Outcome(ErrFrom(SenderNotFound), ws)}
                 ELSE {Outcome(Ok, ws)}

IssueExecute(ws, tx) ==
    LET pub_key == tx.author
        hash == tx.hash
    IN  IF HasWallet(ws, pub_key)
        THEN LET wallet == ws[pub_key]
                 amount == tx.amount
             IN  Finish(ws, increase_wallet_balance(ws, wallet, amount, hash),
                        AddOverflows(wallet.balance, amount))
        ELSE {Outcome(ErrFrom(ReceiverNotFound), ws)}

\* CreateWallet::execute without the check that the author has no wallet.
CreateWalletExecute_Overwrite(ws, tx) ==
    {Outcome(Ok, create_wallet(ws, tx.author, tx.name, tx.hash))}

CreateWalletExecute(ws, tx) ==
    LET pub_key == tx.author
        hash == tx.hash
    IN  IF ~HasWallet(ws, pub_key)
        THEN {Outcome(Ok, create_wallet(ws, pub_key, tx.name, hash))}
        ELSE {Outcome(ErrFrom(WalletAlreadyExists), ws)}

(***************************************************************************)
(* The blockchain around the service.                                      *)
(***************************************************************************)
\* context.tx_hash(): the hash of the transaction being executed, which no
\* earlier transaction has.  Hashes are opaque and only those of proposals
\* are kept, so the least hash that is no proposal's stands for it.
FreshHash == CHOOSE h \in Hashes \ DOMAIN proposals :
                \A g \in Hashes \ DOMAIN proposals : h <= g

\* The bounds of the model, on the state after the transaction.
WithinBounds(ws, ps) ==
    /\ \A k \in DOMAIN ws : ws[k].history_len <= MaxHistory
    /\ Cardinality(DOMAIN ps) < Cardinality(Hashes)

Extend(f, key, value) ==
    [k \in DOMAIN f \cup {key} |-> IF k = key THEN value ELSE f[k]]

\* No transaction is being executed.
Idle == [tx |-> [kind |-> "None"], result |-> Ok]

\* The transaction is executed, one at a time: the table becomes what
\* `execute` left, and the result is handed to the blockchain.
Commit(tx, out, ps) ==
    /\ WithinBounds(out.wallets, ps)
    /\ wallets' = out.wallets
    /\ proposals' = ps
    /\ last' = [tx |-> tx, result |-> out.result]

Init ==
    /\ wallets = << >>
    /\ proposals = << >>
    /\ last = Idle

CreateWallet ==
    /\ last = Idle
    /\ \E author \in Owners, name \in Names :
        LET tx == [kind |-> "CreateWallet", author |-> author,
                   hash |-> FreshHash, name |-> name]
        IN  \E out \in CreateWalletExecute(wallets, tx) :
                Commit(tx, out, proposals)

Issue ==
    /\ last = Idle
    /\ \E author \in Keys, amount \in Amounts :
        LET tx == [kind |-> "Issue", author |-> author,
                   hash |-> FreshHash, amount |-> amount]
        IN  \E out \in IssueExecute(wallets, tx) :
                Commit(tx, out, proposals)

Transfer ==
    /\ last = Idle
    /\ \E author \in Keys, to \in Keys, amount \in Amounts :
        LET tx == [kind |-> "Transfer", author |-> author,
                   hash |-> FreshHash, to |-> to, amount |-> amount]
        IN  \E out \in TransferExecute(wallets, tx) :
                Commit(tx, out, proposals)

TransferMultisign ==
    /\ last = Idle
    /\ \E author \in Keys, from \in Keys, to \in Keys,
       approvers \in ApproverLists, amount \in Amounts :
        LET tx == [kind |-> "TransferMultisign", author |-> author,
                   hash |-> FreshHash, from |-> from, to |-> to,
                   approvers |-> approvers, amount |-> amount]
        IN  \E out \in TransferMultisignExecute(wallets, tx) :
                Commit(tx, out,
                       IF out.result = Ok
                       THEN Extend(proposals, tx.hash,
                                   [from |-> from, to |-> to,
                                    approvers |-> approvers])
                       ELSE proposals)

AcceptMultisign ==
    /\ last = Idle
    /\ \E author \in Keys, tx_hash \in Hashes, from \in Keys, to \in Keys,
       approvers \in ApproverLists :
        LET tx == [kind |-> "AcceptMultisign", author |-> author,
                   tx_hash |-> tx_hash, from |-> from, to |-> to,
                   approvers |-> approvers]
        IN  \E out \in AcceptMultisignExecute(wallets, tx) :
                Commit(tx, out, proposals)

\* The blockchain files the result of the transaction as its receipt and
\* turns to the next transaction.
Receipt ==
    /\ last # Idle
    /\ last' = Idle
    /\ UNCHANGED <<wallets, proposals>>

Next ==
    \/ Receipt
    \/ CreateWallet
    \/ Issue
    \/ Transfer
    \/ TransferMultisign
    \/ AcceptMultisign

Spec == Init /\ [][Next]_vars

(***************************************************************************)
(* Properties.  `last'` is the transaction a step executes, `wallets` the  *)
(* table before it and `wallets'` the table after it.                      *)
(***************************************************************************)
RECURSIVE SumBalances(_, _)
SumBalances(ws, keys) ==
    IF keys = {} THEN 0
    ELSE LET k == CHOOSE x \in keys : TRUE
         IN  ws[k].balance + SumBalances(ws, keys \ {k})

\* The sum of balance over all accounts.
TotalBalance(ws) == SumBalances(ws, DOMAIN ws)

\* Proposal P is in the pending set of k's account.
IsPending(ws, k, P) == k \in DOMAIN ws /\ Contains(ws[k].pending_txs, P)

\* The step executes a transaction of this kind.
Executes(kind) == last = Idle /\ last'.tx.kind = kind

\* C1: every account has pending_balance <= balance, in every reachable state.
C1_PendingWithinBalance ==
    \A k \in DOMAIN wallets : wallets[k].pending_balance <= wallets[k].balance

\* C2: a successful Issue(amount) raises the sum of balances by amount, and
\* no other transaction, successful or rejected, changes the sum.
C2_Conservation ==
    [][TotalBalance(wallets') =
         IF Executes("Issue") /\ last'.result = Ok
         THEN TotalBalance(wallets) + last'.tx.amount
         ELSE TotalBalance(wallets)]_vars

\* C3: a transaction whose execution returns an error leaves every field of
\* every account as it was.
C3_ErrorChangesNothing ==
    [][last'.result.status = "Err" => wallets' = wallets]_vars

\* C3 witness: a multisig transfer was rejected for insufficient funds while
\* the sender had an earlier proposal pending.
C3_Witness ==
    /\ last.tx.kind = "TransferMultisign"
    /\ last.result = ErrFrom(InsufficientCurrencyAmount)
    /\ wallets[last.tx.from].pending_txs # <<>>

\* C4: an AcceptMultisign that settles proposal P is authored by a member of
\* the approvers list of the TransferMultisign that created P.
C4_AcceptByProposalApprover ==
    [][(/\ Executes("AcceptMultisign")
        /\ IsPending(wallets, last'.tx.from, last'.tx.tx_hash)
        /\ ~IsPending(wallets', last'.tx.from, last'.tx.tx_hash))
       => Contains(proposals[last'.tx.tx_hash].approvers, last'.tx.author)]_vars

\* C5: P enters k's pending set exactly by the successful TransferMultisign
\* with hash P and sender k; it leaves exactly by a successful AcceptMultisign
\* of P for sender k, which takes P out and keeps the other entries; and once
\* P has left, it stays out and an accept of P changes nothing.  (A step that
\* leaves the table as it was is therefore no successful proposal and no
\* successful accept of a proposal pending for its sender.)
C5_ProposalLifecycle ==
    [][last' # Idle =>
       IF wallets' = wallets
       THEN /\ ~(Executes("TransferMultisign") /\ last'.result = Ok)
            /\ ~(/\ Executes("AcceptMultisign")
                  /\ last'.result = Ok
                  /\ IsPending(wallets, last'.tx.from, last'.tx.tx_hash))
       ELSE \A P \in Hashes, k \in DOMAIN wallets' :
             LET was == IsPending(wallets, k, P)
                 is == IsPending(wallets', k, P)
                 accepts == Executes("AcceptMultisign") /\ last'.tx.tx_hash = P
             IN  /\ (~was /\ is)
                      <=> (/\ Executes("TransferMultisign")
                           /\ last'.result = Ok
                           /\ last'.tx.hash = P
                           /\ last'.tx.from = k)
                 /\ (was /\ ~is)
                      <=> (/\ accepts
                           /\ last'.result = Ok
                           /\ last'.tx.from = k
                           /\ was)
                 /\ (was /\ ~is)
                      => wallets'[k].pending_txs =
                            SelectSeq(wallets[k].pending_txs, LAMBDA x : x # P)
                 /\ (P \in DOMAIN proposals /\ proposals[P].from = k /\ ~was)
                      => (~is /\ ~accepts)]_vars

\* C5 witness: proposal P of the sender was accepted and is out of the
\* pending set, and another proposal of the same sender is still pending.
C5_Witness ==
    /\ last.tx.kind = "AcceptMultisign"
    /\ last.result = Ok
    /\ last.tx.tx_hash \in DOMAIN proposals
    /\ proposals[last.tx.tx_hash].from = last.tx.from
    /\ ~IsPending(wallets, last.tx.from, last.tx.tx_hash)
    /\ wallets[last.tx.from].pending_txs # <<>>
    /\ wallets[last.tx.from].history_len > 0

\* C6: a successful AcceptMultisign of a pending proposal by an approver moves
\* settled = balance - pending_balance of the sender (before the step) from
\* the sender to the receiver, takes the proposal out of the pending set and
\* leaves pending_balance as it was.
C6_AcceptEffect ==
    [][(/\ Executes("AcceptMultisign")
        /\ last'.result = Ok
        /\ IsPending(wallets, last'.tx.from, last'.tx.tx_hash)
        /\ Contains(last'.tx.approvers, last'.tx.author))
       => LET from == last'.tx.from
              to == last'.tx.to
              settled == wallets[from].balance - wallets[from].pending_balance
          IN  /\ wallets'[from].balance = wallets[from].balance - settled
              /\ wallets'[to].balance = wallets[to].balance + settled
              /\ ~IsPending(wallets', from, last'.tx.tx_hash)
              /\ wallets'[from].pending_balance = wallets[from].pending_balance
      ]_vars

\* C7: a successful TransferMultisign adds its own hash to the sender's
\* pending set and amount to the sender's pending_balance, changes no
\* account's balance and leaves the receiver's record as it was.
C7_ProposeEffect ==
    [][(Executes("TransferMultisign") /\ last'.result = Ok)
       => LET from == last'.tx.from
              to == last'.tx.to
          IN  /\ ~IsPending(wallets, from, last'.tx.hash)
              /\ wallets'[from].pending_txs =
                    Append(wallets[from].pending_txs, last'.tx.hash)
              /\ wallets'[from].pending_balance =
                    wallets[from].pending_balance + last'.tx.amount
              /\ DOMAIN wallets' = DOMAIN wallets
              /\ \A k \in DOMAIN wallets :
                    wallets'[k].balance = wallets[k].balance
              /\ wallets'[to] = wallets[to]]_vars

\* C7, the case without overflow: a proposal of a positive amount succeeded while another
\* proposal of the sender was pending.
C7_Witness ==
    /\ last.tx.kind = "TransferMultisign"
    /\ last.result = Ok
    /\ last.tx.amount > 0
    /\ Len(wallets[last.tx.from].pending_txs) = 2
    /\ wallets[last.tx.from].pending_balance > last.tx.amount

\* The transaction names one account as sender and as receiver.
SameAccount(tx) ==
    \/ tx.kind = "Transfer" /\ tx.to = tx.author
    \/ tx.kind \in {"TransferMultisign", "AcceptMultisign"} /\ tx.from = tx.to

\* C8: a Transfer to its author, and a TransferMultisign or AcceptMultisign
\* with from = to, fails with the same-account error and changes nothing,
\* whatever the state and the other fields are.
C8_SelfTransferRejected ==
    [][(last = Idle /\ SameAccount(last'.tx))
       => /\ last'.result = ErrNew(ERROR_SENDER_SAME_AS_RECEIVER)
          /\ wallets' = wallets]_vars

\* C8 witness: an accept with from = to was rejected as a same-account
\* transaction although that account does not exist.
C8_Witness ==
    /\ last.tx.kind = "AcceptMultisign"
    /\ last.tx.from = last.tx.to
    /\ last.tx.from \notin DOMAIN wallets
    /\ last.result = ErrNew(ERROR_SENDER_SAME_AS_RECEIVER)

\* C9: an AcceptMultisign with from # to, both accounts existing, and a hash
\* that is not in the sender's pending set is rejected with SenderNotFound and
\* changes nothing.
C9_UnknownProposalRejected ==
    [][(/\ Executes("AcceptMultisign")
        /\ last'.tx.from # last'.tx.to
        /\ last'.tx.from \in DOMAIN wallets
        /\ last'.tx.to \in DOMAIN wallets
        /\ ~IsPending(wallets, last'.tx.from, last'.tx.tx_hash))
       => /\ last'.result = ErrFrom(SenderNotFound)
          /\ wallets' = wallets]_vars

\* C10: the five error kinds have pairwise distinct codes, so an error that
\* carries the code of the same-account rejection is a same-account rejection.
C10_DistinctCodes ==
    (/\ last # Idle
     /\ last.result.status = "Err"
     /\ last.result.code = ERROR_SENDER_SAME_AS_RECEIVER)
    => SameAccount(last.tx)

\* C11: a Transfer to another account, both accounts existing, succeeds when
\* the sender's balance covers the amount, and then moves exactly amount from
\* the sender to the receiver and leaves pending_balance and pending_txs of
\* both as they were; otherwise it fails with InsufficientCurrencyAmount and
\* changes nothing.
C11_TransferEffect ==
    [][(/\ Executes("Transfer")
        /\ last'.tx.to # last'.tx.author
        /\ last'.tx.author \in DOMAIN wallets
        /\ last'.tx.to \in DOMAIN wallets)
       => LET from == last'.tx.author
              to == last'.tx.to
              amount == last'.tx.amount
          IN  IF wallets[from].balance >= amount
              THEN /\ last'.result = Ok
                   /\ wallets'[from].balance = wallets[from].balance - amount
                   /\ wallets'[to].balance = wallets[to].balance + amount
                   /\ \A k \in {from, to} :
                        /\ wallets'[k].pending_balance = wallets[k].pending_balance
                        /\ wallets'[k].pending_txs = wallets[k].pending_txs
              ELSE /\ last'.result = ErrFrom(InsufficientCurrencyAmount)
                   /\ wallets' = wallets]_vars

\* C12: CreateWallet by an author without a wallet succeeds and creates a
\* wallet of that author with the given name, balance 0, pending_balance 0,
\* no pending transfer and history_len 0; by an author who has a wallet it
\* fails with WalletAlreadyExists and changes nothing.  No other wallet is
\* touched either way.
C12_CreateWalletEffect ==
    [][Executes("CreateWallet")
       => LET author == last'.tx.author
          IN  IF author \notin DOMAIN wallets
              THEN /\ last'.result = Ok
                   /\ DOMAIN wallets' = DOMAIN wallets \cup {author}
                   /\ wallets'[author].pub_key = author
                   /\ wallets'[author].name = last'.tx.name
                   /\ wallets'[author].balance = 0
                   /\ wallets'[author].pending_balance = 0
                   /\ wallets'[author].pending_txs = <<>>
                   /\ wallets'[author].history_len = 0
                   /\ \A k \in DOMAIN wallets : wallets'[k] = wallets[k]
              ELSE /\ last'.result = ErrFrom(WalletAlreadyExists)
                   /\ wallets' = wallets]_vars

\* C12 witness: a CreateWallet was rejected for an author whose wallet holds
\* funds and a pending proposal.
C12_Witness ==
    /\ last.tx.kind = "CreateWallet"
    /\ last.result = ErrFrom(WalletAlreadyExists)
    /\ wallets[last.tx.author].balance > 0
    /\ wallets[last.tx.author].pending_txs # <<>>

\* C13: a wallet's history_len never decreases, and every step that changes
\* any field of an existing wallet strictly increases that wallet's
\* history_len.
C13_HistoryCounter ==
    [][\A k \in DOMAIN wallets :
         /\ k \in DOMAIN wallets'
         /\ wallets'[k].history_len >= wallets[k].history_len
         /\ wallets'[k] # wallets[k]
              => wallets'[k].history_len > wallets[k].history_len]_vars

\* C14: a wallet, once created, exists after every later step, under the same
\* key, with the same pub_key and the same name.
C14_AccountLifecycle ==
    [][\A k \in DOMAIN wallets :
         /\ k \in DOMAIN wallets'
         /\ wallets'[k].pub_key = wallets[k].pub_key
         /\ wallets'[k].pub_key = k
         /\ wallets'[k].name = wallets[k].name]_vars

\* C14 witness: a wallet created earlier has had its balance set and holds a
\* pending proposal, and a Transfer from it has just succeeded.
C14_Witness ==
    /\ last.tx.kind = "Transfer"
    /\ last.result = Ok
    /\ wallets[last.tx.author].history_len = MaxHistory
    /\ wallets[last.tx.author].pending_txs # <<>>

\* C16: a TransferMultisign reports the error of the first failing
\* precondition in the order: from # to, sender wallet exists, receiver wallet
\* exists, author is one of the approvers, sender's balance covers the amount.
\* In particular, with from # to, the sender existing and the receiver
\* missing, it fails with ReceiverNotFound whoever the author is.
C16_ProposeOrder ==
    [][Executes("TransferMultisign")
       => LET tx == last'.tx
              result == last'.result
          IN  IF tx.from = tx.to
              THEN result = ErrNew(ERROR_SENDER_SAME_AS_RECEIVER)
              ELSE IF tx.from \notin DOMAIN wallets
              THEN result = ErrFrom(SenderNotFound)
              ELSE IF tx.to \notin DOMAIN wallets
              THEN result = ErrFrom(ReceiverNotFound)
              ELSE IF ~Contains(tx.approvers, tx.author)
              THEN result.status = "Err"
              ELSE IF wallets[tx.from].balance < tx.amount
              THEN result = ErrFrom(InsufficientCurrencyAmount)
              ELSE result.status # "Err"]_vars

\* C17: an Issue by an author without a wallet is rejected with SenderNotFound
\* and changes nothing; an Issue by an author with a wallet succeeds, adds
\* exactly amount to that wallet's balance and changes no other wallet.
C17_IssueEffect ==
    [][Executes("Issue")
       => LET author == last'.tx.author
          IN  IF author \notin DOMAIN wallets
              THEN /\ last'.result = ErrFrom(SenderNotFound)
                   /\ wallets' = wallets
              ELSE /\ last'.result = Ok
                   /\ DOMAIN wallets' = DOMAIN wallets
                   /\ wallets'[author].balance
                        = wallets[author].balance + last'.tx.amount
                   /\ \A k \in DOMAIN wallets \ {author} :
                        wallets'[k] = wallets[k]]_vars

\* C18: whenever an AcceptMultisign passes all its preconditions (from # to,
\* both wallets exist, the hash is pending on the sender, the author is one of
\* the approvers), the sender's pending_balance is at most its balance, so
\* balance - pending_balance does not underflow: the step neither panics nor
\* wraps, and the sender is debited exactly that difference.
C18_NoSettlementUnderflow ==
    [][(/\ Executes("AcceptMultisign")
        /\ last'.tx.from # last'.tx.to
        /\ last'.tx.from \in DOMAIN wallets
        /\ last'.tx.to \in DOMAIN wallets
        /\ Contains(wallets[last'.tx.from].pending_txs, last'.tx.tx_hash)
        /\ Contains(last'.tx.approvers, last'.tx.author))
       => LET sender == wallets[last'.tx.from]
          IN  /\ sender.pending_balance <= sender.balance
              /\ last'.result = Ok
              /\ wallets'[last'.tx.from].balance
                   = sender.balance - (sender.balance - sender.pending_balance)]_vars

(***************************************************************************)
(* A second specification, in which every key may own a wallet, so that a  *)
(* transaction can meet wallets that are neither its sender's nor its      *)
(* receiver's.  It is kept small by a budget on the ledger: few balance    *)
(* changes over all wallets together, and one proposal.                    *)
(***************************************************************************)
RECURSIVE SumHistory(_, _)
SumHistory(ws, keys) ==
    IF keys = {} THEN 0
    ELSE LET k == CHOOSE x \in keys : TRUE
         IN  ws[k].history_len + SumHistory(ws, keys \ {k})

WithinBudget ==
    /\ SumHistory(wallets, DOMAIN wallets) <= MaxHistory + 1
    /\ Cardinality(DOMAIN proposals) <= 1

CreateWalletByAny ==
    /\ last = Idle
    /\ \E author \in Keys, name \in Names :
        LET tx == [kind |-> "CreateWallet", author |-> author,
                   hash |-> FreshHash, name |-> name]
        IN  \E out \in CreateWalletExecute(wallets, tx) :
                Commit(tx, out, proposals)

IssueWithinBudget == Issue /\ WithinBudget'

TransferWithinBudget == Transfer /\ WithinBudget'

TransferMultisignWithinBudget == TransferMultisign /\ WithinBudget'

AcceptMultisignWithinBudget == AcceptMultisign /\ WithinBudget'

NextAllOwners ==
    \/ Receipt
    \/ CreateWalletByAny
    \/ IssueWithinBudget
    \/ TransferWithinBudget
    \/ TransferMultisignWithinBudget
    \/ AcceptMultisignWithinBudget

SpecAllOwners == Init /\ [][NextAllOwners]_vars

\* C19: when an AcceptMultisign settles the proposal with hash P, the wallet
\* debited is that of the `from` and the wallet credited is that of the `to`
\* of the TransferMultisign that created P, whatever `to` the accept carries:
\* no other wallet changes.
C19_ReceiverBinding ==
    [][(/\ Executes("AcceptMultisign")
        /\ last'.result = Ok
        /\ last'.tx.tx_hash \in DOMAIN proposals
        /\ wallets' # wallets)
       => LET proposal == proposals[last'.tx.tx_hash]
          IN  /\ last'.tx.from = proposal.from
              /\ \A k \in DOMAIN wallets :
                   wallets'[k] # wallets[k] => k \in {proposal.from, proposal.to}]_vars

\* C20: a transaction changes no wallet other than its sender's (the author's
\* for CreateWallet, Issue and Transfer, that of `from` for TransferMultisign
\* and AcceptMultisign) and its receiver's (that of `to`): every other wallet
\* is after the step what it was before, and no other wallet appears.  The
\* wallets of the author and of the approvers of a multisig transaction are
\* among the others unless they are `from` or `to`.
C20_Frame ==
    [][(last = Idle /\ last' # Idle)
       => LET tx == last'.tx
              touched == CASE tx.kind \in {"CreateWallet", "Issue"} -> {tx.author}
                           [] tx.kind = "Transfer" -> {tx.author, tx.to}
                           [] OTHER -> {tx.from, tx.to}
          IN  /\ DOMAIN wallets' \subseteq DOMAIN wallets \cup touched
              /\ \A k \in DOMAIN wallets \ touched :
                   /\ k \in DOMAIN wallets'
                   /\ wallets'[k] = wallets[k]]_vars

\* C20 witness: an AcceptMultisign whose author owns a wallet and is neither
\* `from` nor `to` has just settled a proposal and moved funds.
C20_Witness ==
    /\ last.tx.kind = "AcceptMultisign"
    /\ last.result = Ok
    /\ last.tx.author \in DOMAIN wallets
    /\ last.tx.author \notin {last.tx.from, last.tx.to}
    /\ Contains(last.tx.approvers, last.tx.author)
    /\ last.tx.tx_hash \in DOMAIN proposals
    /\ ~Contains(wallets[last.tx.from].pending_txs, last.tx.tx_hash)
    /\ wallets[last.tx.to].balance > 0

(***************************************************************************)
(* A third specification, in which the amounts of Issue, Transfer and      *)
(* TransferMultisign also take half the range of a u64, so that two        *)
(* additions leave the range without any earlier subtraction having        *)
(* wrapped.                                                                *)
(***************************************************************************)
LargeAmounts == Amounts \cup {Modulus \div 2}

IssueLarge ==
    /\ last = Idle
    /\ \E author \in Keys, amount \in LargeAmounts :
        LET tx == [kind |-> "Issue", author |-> author,
                   hash |-> FreshHash, amount |-> amount]
        IN  \E out \in IssueExecute(wallets, tx) :
                Commit(tx, out, proposals)

TransferLarge ==
    /\ last = Idle
    /\ \E author \in Keys, to \in Keys, amount \in LargeAmounts :
        LET tx == [kind |-> "Transfer", author |-> author,
                   hash |-> FreshHash, to |-> to, amount |-> amount]
        IN  \E out \in TransferExecute(wallets, tx) :
                Commit(tx, out, proposals)

TransferMultisignLarge ==
    /\ last = Idle
    /\ \E author \in Keys, from \in Keys, to \in Keys,
       approvers \in ApproverLists, amount \in LargeAmounts :
        LET tx == [kind |-> "TransferMultisign", author |-> author,
                   hash |-> FreshHash, from |-> from, to |-> to,
                   approvers |-> approvers, amount |-> amount]
        IN  \E out \in TransferMultisignExecute(wallets, tx) :
                Commit(tx, out,
                       IF out.result = Ok
                       THEN Extend(proposals, tx.hash,
                                   [from |-> from, to |-> to,
                                    approvers |-> approvers])
                       ELSE proposals)

NextLargeAmounts ==
    \/ Receipt
    \/ CreateWallet
    \/ IssueLarge
    \/ TransferLarge
    \/ TransferMultisignLarge
    \/ AcceptMultisign

SpecLargeAmounts == Init /\ [][NextLargeAmounts]_vars

====
